---- MODULE Spec2Model ----
(***************************************************************************)
(* Double-entry ledger, journal-entry numbering, asset depreciation and    *)
(* the commission/advance ledger of the shop backend (accounting/models.py,*)
(* assets/models.py, assets/tasks.py, expenses/views.py, sales/views.py,   *)
(* sales/serializers.py).                                                  *)
(*                                                                         *)
(* Money is an integer number of cents.  Accounts are named by their       *)
(* chart-of-accounts code.  The database is the state: every handler is    *)
(* one action, and a handler that runs outside transaction.atomic() keeps  *)
(* the writes it made before an exception.                                 *)
(***************************************************************************)
EXTENDS Integers, Sequences, FiniteSets, TLC

VARIABLES
    accounts,   \* code -> [debit_balance, credit_balance, balance]   (Account rows)
    entries,    \* sequence of JournalEntry rows, each owning its lines
    last,       \* the most recent handler and its outcome
    faults,     \* number of database failures so far
    assets,     \* sequence of Asset rows
    today,      \* date.today(), a day number
    writers,    \* requests and task runs in flight: where each one is in its code
    commissions, \* sequence of Commission rows
    advances    \* sequence of AdvancePayment rows

vars == <<accounts, entries, last, faults, assets, today, writers, commissions, advances>>

(***************************************************************************)
(* Bounds of the model.                                                    *)
(***************************************************************************)
MaxEntries == 2
MaxLines == 2
MaxAmount == 1
MaxFaults == 1
MaxCost == 4            \* largest purchase_cost, in cents
MaxLife == 3            \* largest useful_life_years
MaxMonth == 30          \* last month of the calendar, counted from January of BaseYear
DaysPerMonth == 2       \* days the model's months have

BaseYear == 2025
MonthsPerYear == 12

(***************************************************************************)
(* Chart of accounts.                                                      *)
(***************************************************************************)
AccountCodes == {"1000", "1010", "1011", "1020", "1500", "1510", "2001", "5100", "6000", "8500"}

\* Accounts a hand-made journal line may name.
LineAccounts == {"1010", "2001"}

ACCOUNT_TYPES ==
    [a \in AccountCodes |->
        CASE a = "1000" -> "ASSET"
          [] a = "1010" -> "ASSET"
          [] a = "1500" -> "ASSET"
          [] a = "1510" -> "ASSET"
          [] a = "6000" -> "EXPENSE"
          [] a = "8500" -> "EXPENSE"
          [] a = "1011" -> "ASSET"
          [] a = "1020" -> "ASSET"
          [] a = "2001" -> "LIABILITY"
          [] a = "5100" -> "EXPENSE"]

Years == {2025}

\* A variant that treats every account as debit-normal.
update_balance_DebitNormal(a, row) ==
    [row EXCEPT !.balance = row.debit_balance - row.credit_balance]

(***************************************************************************)
(* Account.update_balance                                                  *)
(***************************************************************************)
update_balance(a, row) ==
    IF ACCOUNT_TYPES[a] \in {"ASSET", "EXPENSE"}
    THEN [row EXCEPT !.balance = row.debit_balance - row.credit_balance]
    ELSE [row EXCEPT !.balance = row.credit_balance - row.debit_balance]

\* account.debit_balance += d; account.credit_balance += c; account.update_balance()
AddToAccount(acc, a, d, c) ==
    [acc EXCEPT ![a] = update_balance(a,
        [@ EXCEPT !.debit_balance = @ + d, !.credit_balance = @ + c])]

RECURSIVE SumDebits(_), SumCredits(_)
SumDebits(lines) ==
    IF lines = << >> THEN 0 ELSE Head(lines).debit_amount + SumDebits(Tail(lines))
SumCredits(lines) ==
    IF lines = << >> THEN 0 ELSE Head(lines).credit_amount + SumCredits(Tail(lines))

\* The loop of post(): the first n lines applied, in order.
RECURSIVE PostLines(_, _, _)
PostLines(acc, lines, n) ==
    IF n = 0 THEN acc
    ELSE LET l == lines[n]
         IN  AddToAccount(PostLines(acc, lines, n - 1), l.account, l.debit_amount, l.credit_amount)

\* A variant that updates account objects loaded before the loop: of several
\* lines on one account only the last one's update survives.
ReverseLines_StaleInstances(acc, lines, n) ==
    [a \in DOMAIN acc |->
        LET S == {i \in 1 .. n : lines[i].account = a}
        IN  IF S = {} THEN acc[a]
            ELSE LET i == CHOOSE k \in S : \A j \in S : j <= k
                 IN  update_balance(a,
                        [acc[a] EXCEPT !.debit_balance = @ - lines[i].debit_amount,
                                       !.credit_balance = @ - lines[i].credit_amount])]

\* The loop of reverse(): the first n lines taken back, in order.
RECURSIVE ReverseLines(_, _, _)
ReverseLines(acc, lines, n) ==
    IF n = 0 THEN acc
    ELSE LET l == lines[n]
         IN  AddToAccount(ReverseLines(acc, lines, n - 1), l.account, 0 - l.debit_amount, 0 - l.credit_amount)

(***************************************************************************)
(* Entry numbers.  An entry_number string is kept as its parts:            *)
(*   GEN    "{year}-{suffix:06d}"                    JournalEntry.save     *)
(*   PURCH  "PURCH-{asset_number}"                   suffix = the asset    *)
(*          number's sequence part                                         *)
(*   DISP   "DISP-{asset_number}-{YYYYMMDD}"         suffix = the date     *)
(*   DEP    "DEP-{asset_number}-{YYYYMMDD}"          suffix = the date     *)
(* year and asset are the year and the sequence part of the asset_number   *)
(* the string holds (asset = 0: none, year is the number's own prefix).    *)
(***************************************************************************)
GenNumber(year, n) == [kind |-> "GEN", asset |-> 0, year |-> year, suffix |-> n]

\* ORDER BY entry_number: letters sort after digits, "PURCH" after "DISP"
\* after "DEP".
KindRank(k) ==
    CASE k = "GEN" -> 0
      [] k = "DEP" -> 1
      [] k = "DISP" -> 2
      [] k = "PURCH" -> 3

\* The decimal digits of n, as "{n:06d}" prints them.
RECURSIVE Digits(_)
Digits(n) == IF n < 10 THEN <<n>> ELSE Append(Digits(n \div 10), n % 10)

RECURSIVE ZeroPad(_, _)
ZeroPad(s, w) == IF Len(s) >= w THEN s ELSE ZeroPad(<<0>> \o s, w)

Format06d(n) == ZeroPad(Digits(n), 6)

\* s < t as strings.
RECURSIVE StrLess(_, _)
StrLess(s, t) ==
    IF t = << >> THEN FALSE
    ELSE IF s = << >> THEN TRUE
    ELSE IF Head(s) # Head(t) THEN Head(s) < Head(t)
    ELSE StrLess(Tail(s), Tail(t))

NumberLess(m, n) ==
    IF m.kind # n.kind THEN KindRank(m.kind) < KindRank(n.kind)
    ELSE IF m.year # n.year THEN m.year < n.year
    ELSE IF m.asset # n.asset THEN m.asset < n.asset
    ELSE StrLess(Format06d(m.suffix), Format06d(n.suffix))

\* JournalEntry.objects.filter(date__year=year).order_by('-entry_number').first()
LastOfYear(ents, year) ==
    LET S == {i \in DOMAIN ents : ents[i].year = year}
    IN  IF S = {} THEN 0
        ELSE CHOOSE i \in S : \A j \in S : j = i \/ NumberLess(ents[j].entry_number, ents[i].entry_number)

\* JournalEntry.save, the number it generates.  int(x.split('-')[-1]) is the
\* suffix; every format above ends in digits, so ValueError cannot happen.
GenerateEntryNumber(ents, year) ==
    LET i == LastOfYear(ents, year)
    IN  IF i = 0 THEN GenNumber(year, 1)
        ELSE GenNumber(year, ents[i].entry_number.suffix + 1)

\* entry_number is unique=True: the insert raises IntegrityError.
NumberTaken(ents, num) == \E i \in DOMAIN ents : ents[i].entry_number = num

NewEntry(num, year, type, status) ==
    [entry_number |-> num, year |-> year, entry_type |-> type, status |-> status,
     lines |-> << >>, source |-> 0]

NewLine(a, d, c) == [account |-> a, debit_amount |-> d, credit_amount |-> c]

ZeroAccounts ==
    [a \in AccountCodes |-> [debit_balance |-> 0, credit_balance |-> 0, balance |-> 0]]

\* What the most recent handler was and how it ended; fault is the place at
\* which the database failed (0: it did not).  After a successful
\* post(), pre_post keeps the balances it started from; a successful
\* reverse() of the same entry right after it carries them on (after_post),
\* since they are what the reversal is to restore.
Outcome(op, e, ok, error) ==
    LET undo == op = "reverse" /\ ok /\ last.op = "post" /\ last.ok /\ last.entry = e
    IN  [op |-> op, entry |-> e, ok |-> ok, error |-> error, fault |-> 0,
         after_post |-> undo,
         pre_post |-> IF op = "post" /\ ok THEN accounts
                      ELSE IF undo THEN last.pre_post
                      ELSE ZeroAccounts]

(***************************************************************************)
(* JournalEntry.objects.create(date=..., status='DRAFT') with no number.   *)
(***************************************************************************)
CreateEntry(year) ==
    /\ Len(entries) < MaxEntries
    /\ LET num == GenerateEntryNumber(entries, year)
       IN  IF NumberTaken(entries, num)
           THEN /\ last' = Outcome("create", 0, FALSE, "IntegrityError")
                /\ UNCHANGED entries
           ELSE /\ entries' = Append(entries, NewEntry(num, year, "MANUAL", "DRAFT"))
                /\ last' = Outcome("create", Len(entries) + 1, TRUE, "")
    /\ UNCHANGED <<accounts, faults, assets, today, writers, commissions, advances>>

(***************************************************************************)
(* JournalEntryLine.save: the row is inserted, then the account is         *)
(* updated.  Nothing looks at the entry's status.                          *)
(***************************************************************************)
JournalEntryLine_save(acc, a, d, c) == AddToAccount(acc, a, d, c)

CreateLine(e, a, d, c) ==
    /\ e \in DOMAIN entries
    /\ Len(entries[e].lines) < MaxLines
    /\ entries' = [entries EXCEPT ![e].lines = Append(@, NewLine(a, d, c))]
    /\ accounts' = JournalEntryLine_save(accounts, a, d, c)
    /\ last' = Outcome("line", e, TRUE, "")
    /\ UNCHANGED <<faults, assets, today, writers, commissions, advances>>

(***************************************************************************)
(* JournalEntry.post.  fault = k in 1..Len(lines): the account save of     *)
(* line k raises; fault = Len(lines)+1: the entry's own save raises;       *)
(* fault = 0: the database does not fail.  post() opens no transaction.    *)
(***************************************************************************)
\* A variant that only refuses entries already posted.
PostStatusCheck_NotPosted(status) == status # "POSTED"

PostStatusCheck(status) == status = "DRAFT"

\* A variant that only asks the debits to cover the credits.
PostBalanceCheck_DebitsCoverCredits(lines) == SumDebits(lines) >= SumCredits(lines)

PostBalanceCheck(lines) == SumDebits(lines) = SumCredits(lines)

\* Balances the database holds when post() stops at line `fault`.
PostPersisted(acc, lines, fault) ==
    IF fault = 0 THEN PostLines(acc, lines, Len(lines))
    ELSE PostLines(acc, lines, IF fault > Len(lines) THEN Len(lines) ELSE fault - 1)

Post(e, fault) ==
    /\ e \in DOMAIN entries
    /\ fault \in 0 .. Len(entries[e].lines) + 1
    /\ fault # 0 => faults < MaxFaults
    /\ LET E == entries[e]
       IN  IF ~PostStatusCheck(E.status)
           THEN /\ last' = Outcome("post", e, FALSE, "Only draft entries can be posted")
                /\ UNCHANGED <<accounts, entries, faults>>
           ELSE IF ~PostBalanceCheck(E.lines)
           THEN /\ last' = Outcome("post", e, FALSE, "Debits must equal credits")
                /\ UNCHANGED <<accounts, entries, faults>>
           ELSE /\ accounts' = PostPersisted(accounts, E.lines, fault)
                /\ IF fault = 0
                   THEN /\ entries' = [entries EXCEPT ![e].status = "POSTED"]
                        /\ last' = Outcome("post", e, TRUE, "")
                        /\ UNCHANGED faults
                   ELSE /\ UNCHANGED entries
                        /\ faults' = faults + 1
                        /\ last' = [Outcome("post", e, FALSE, "DatabaseError") EXCEPT !.fault = fault]
    /\ UNCHANGED <<assets, today, writers, commissions, advances>>

(***************************************************************************)
(* JournalEntry.reverse                                                    *)
(***************************************************************************)
ReverseStatusCheck(status) == status = "POSTED"

Reverse(e) ==
    /\ e \in DOMAIN entries
    /\ LET E == entries[e]
       IN  IF ~ReverseStatusCheck(E.status)
           THEN /\ last' = Outcome("reverse", e, FALSE, "Only posted entries can be reversed")
                /\ UNCHANGED <<accounts, entries>>
           ELSE /\ accounts' = ReverseLines(accounts, E.lines, Len(E.lines))
                /\ entries' = [entries EXCEPT ![e].status = "REVERSED"]
                /\ last' = Outcome("reverse", e, TRUE, "")
    /\ UNCHANGED <<faults, assets, today, writers, commissions, advances>>

(***************************************************************************)
(* ExpenseViewSet._create_expense_journal_entry: a DRAFT entry, its two    *)
(* lines, then post(); any exception is caught and printed.  The view      *)
(* opens no transaction, so what was written before an exception stays.    *)
(***************************************************************************)
PaymentMethods == {"CASH", "MPESA", "BANK_TRANSFER"}

PaymentAccount(method) ==
    CASE method = "CASH" -> "1010"
      [] method = "MPESA" -> "1011"
      [] OTHER -> "1020"

ExpenseLines(amount, method) ==
    << NewLine("5100", amount, 0), NewLine(PaymentAccount(method), 0, amount) >>

RecordExpense(amount, method, year, fault) ==
    /\ fault # 0 => faults < MaxFaults
    /\ LET num == GenerateEntryNumber(entries, year)
           e == Len(entries) + 1
           lines == ExpenseLines(amount, method)
           \* the two JournalEntryLine.objects.create calls
           afterLines == JournalEntryLine_save(
                             JournalEntryLine_save(accounts, lines[1].account,
                                 lines[1].debit_amount, lines[1].credit_amount),
                             lines[2].account, lines[2].debit_amount, lines[2].credit_amount)
           draft == [NewEntry(num, year, "AUTO", "DRAFT") EXCEPT !.lines = lines]
       IN  IF NumberTaken(entries, num)
           THEN /\ last' = Outcome("expense", 0, FALSE, "IntegrityError")
                /\ UNCHANGED <<accounts, entries, faults>>
           ELSE IF ~PostBalanceCheck(lines)
           THEN /\ entries' = Append(entries, draft)
                /\ accounts' = afterLines
                /\ last' = Outcome("expense", e, FALSE, "Debits must equal credits")
                /\ UNCHANGED faults
           ELSE /\ accounts' = PostPersisted(afterLines, lines, fault)
                /\ IF fault = 0
                   THEN /\ entries' = Append(entries, [draft EXCEPT !.status = "POSTED"])
                        /\ last' = Outcome("expense", e, TRUE, "")
                        /\ UNCHANGED faults
                   ELSE /\ entries' = Append(entries, draft)
                        /\ last' = [Outcome("expense", e, FALSE, "DatabaseError") EXCEPT !.fault = fault]
                        /\ faults' = faults + 1
    /\ UNCHANGED <<assets, today, writers, commissions, advances>>

Init ==
    /\ accounts = ZeroAccounts
    /\ entries = << >>
    /\ last = [op |-> "none", entry |-> 0, ok |-> TRUE, error |-> "", fault |-> 0,
               after_post |-> FALSE, pre_post |-> ZeroAccounts]
    /\ faults = 0
    /\ commissions = << >>
    /\ advances = << >>
    /\ assets = << >>
    /\ today = 0
    /\ writers = << >>

Next ==
    \/ \E y \in Years : CreateEntry(y)
    \/ \E e \in 1 .. MaxEntries, a \in LineAccounts, d \in 0 .. MaxAmount, c \in 0 .. MaxAmount :
          d + c > 0 /\ CreateLine(e, a, d, c)
    \/ \E e \in 1 .. MaxEntries, f \in 0 .. MaxLines + 1 : Post(e, f)
    \/ \E e \in 1 .. MaxEntries : Reverse(e)
    \/ \E amount \in 1 .. MaxAmount, m \in PaymentMethods, y \in Years, f \in 0 .. 3 :
          Len(entries) < MaxEntries /\ RecordExpense(amount, m, y, f)

Spec == Init /\ [][Next]_vars

(***************************************************************************)
(* Dates.  A date is a day number; day 0 is the first day of January of    *)
(* BaseYear and every month has DaysPerMonth days.                         *)
(***************************************************************************)
MaxDay == (MaxMonth + 1) * DaysPerMonth - 1

MonthIndex(d) == d \div DaysPerMonth
YearOf(d) == BaseYear + MonthIndex(d) \div MonthsPerYear
MonthOf(d) == (MonthIndex(d) % MonthsPerYear) + 1
DayOf(d) == (d % DaysPerMonth) + 1

\* strftime('%Y%m%d') read as a number
DateNumber(d) == YearOf(d) * 10000 + MonthOf(d) * 100 + DayOf(d)

(***************************************************************************)
(* Decimal arithmetic.  Amounts between the stored fields are exact        *)
(* fractions n/d of a cent (d > 0), kept in lowest terms; Decimal's 28     *)
(* significant digits are far beyond the amounts of the model.             *)
(***************************************************************************)
RECURSIVE GCD(_, _)
GCD(a, b) == IF b = 0 THEN a ELSE GCD(b, a % b)

Abs(x) == IF x < 0 THEN 0 - x ELSE x

Frac(n, d) ==
    LET g == GCD(Abs(n), d)
    IN  [n |-> n \div g, d |-> d \div g]

FracInt(x) == [n |-> x, d |-> 1]
FracMul(x, y) == Frac(x.n * y.n, x.d * y.d)
FracAdd(x, y) == Frac(x.n * y.d + y.n * x.d, x.d * y.d)
FracSub(x, y) == Frac(x.n * y.d - y.n * x.d, x.d * y.d)
FracLess(x, y) == x.n * y.d < y.n * x.d
FracLeq(x, y) == x.n * y.d <= y.n * x.d

\* x.quantize(Decimal('0.01'), rounding=ROUND_HALF_UP), in cents: ties go
\* away from zero.
QuantizeHalfUp(x) ==
    IF x.n >= 0 THEN (2 * x.n + x.d) \div (2 * x.d)
    ELSE 0 - ((2 * (0 - x.n) + x.d) \div (2 * x.d))

(***************************************************************************)
(* Asset.depreciation_rate                                                 *)
(***************************************************************************)
DepreciationMethods ==
    {"STRAIGHT_LINE", "DECLINING_BALANCE", "DOUBLE_DECLINING", "UNITS_OF_PRODUCTION"}

\* A variant that gives DOUBLE_DECLINING the straight-line rate.
depreciation_rate_Single(asset) ==
    IF asset.useful_life_years <= 0 THEN FracInt(0)
    ELSE CASE asset.depreciation_method = "DECLINING_BALANCE" -> Frac(3, 2 * asset.useful_life_years)
           [] OTHER -> Frac(1, asset.useful_life_years)

depreciation_rate(asset) ==
    IF asset.useful_life_years <= 0 THEN FracInt(0)
    ELSE CASE asset.depreciation_method = "STRAIGHT_LINE" -> Frac(1, asset.useful_life_years)
           [] asset.depreciation_method = "DOUBLE_DECLINING" -> Frac(2, asset.useful_life_years)
           [] asset.depreciation_method = "DECLINING_BALANCE" -> Frac(3, 2 * asset.useful_life_years)
           [] OTHER -> Frac(1, asset.useful_life_years)

(***************************************************************************)
(* Asset.calculate_current_values                                          *)
(***************************************************************************)
months_owned(asset, t) ==
    (YearOf(t) - YearOf(asset.purchase_date)) * MonthsPerYear
        + (MonthOf(t) - MonthOf(asset.purchase_date))

StraightLineTotal(asset, months) ==
    Frac((asset.purchase_cost - asset.salvage_value) * months,
         asset.useful_life_years * MonthsPerYear)

\* The loop of the DOUBLE_DECLINING branch, from `year` on.
RECURSIVE DoubleDecliningLoop(_, _, _, _, _)
DoubleDecliningLoop(asset, months, year, remaining_value, total_depreciation) ==
    IF year > months \div MonthsPerYear THEN total_depreciation
    ELSE IF FracLeq(remaining_value, FracInt(asset.salvage_value)) THEN total_depreciation
    ELSE LET full == FracMul(remaining_value, depreciation_rate(asset))
             capped == IF FracLess(FracSub(remaining_value, full), FracInt(asset.salvage_value))
                       THEN FracSub(remaining_value, FracInt(asset.salvage_value))
                       ELSE full
             year_depreciation ==
                 IF year = months \div MonthsPerYear
                 THEN FracMul(capped, Frac(months % MonthsPerYear, MonthsPerYear))
                 ELSE capped
         IN  DoubleDecliningLoop(asset, months, year + 1,
                                 FracSub(remaining_value, year_depreciation),
                                 FracAdd(total_depreciation, year_depreciation))

TotalDepreciation(asset, months) ==
    CASE asset.depreciation_method = "STRAIGHT_LINE" -> StraightLineTotal(asset, months)
      [] asset.depreciation_method = "DOUBLE_DECLINING" ->
            DoubleDecliningLoop(asset, months, 0, FracInt(asset.purchase_cost), FracInt(0))
      [] OTHER -> StraightLineTotal(asset, months)

\* A variant without the final clamp.
ClampDepreciation_None(total_depreciation, max_depreciation) == total_depreciation

\* total_depreciation = min(total_depreciation, max_depreciation)
ClampDepreciation(total_depreciation, max_depreciation) ==
    IF FracLess(FracInt(max_depreciation), total_depreciation)
    THEN FracInt(max_depreciation)
    ELSE total_depreciation

calculate_current_values(asset, t) ==
    IF asset.status \in {"DISPOSED", "SOLD"} THEN asset
    ELSE IF asset.purchase_date > t THEN asset
    ELSE IF months_owned(asset, t) <= 0
    THEN [asset EXCEPT !.accumulated_depreciation = 0,
                       !.current_book_value = asset.purchase_cost]
    ELSE LET total == ClampDepreciation(TotalDepreciation(asset, months_owned(asset, t)),
                                        asset.purchase_cost - asset.salvage_value)
             accumulated == QuantizeHalfUp(total)
         IN  [asset EXCEPT !.accumulated_depreciation = accumulated,
                           !.current_book_value = asset.purchase_cost - accumulated]

\* Python's None in a nullable date or amount field.
None == 0 - 1

\* An Asset row as the model class builds it: the calculated fields start at
\* their default 0, the disposal fields empty.
NewAsset(cost, salvage, life, method, purchased, status) ==
    [purchase_cost |-> cost, salvage_value |-> salvage, useful_life_years |-> life,
     depreciation_method |-> method, purchase_date |-> purchased,
     accumulated_depreciation |-> 0, current_book_value |-> 0, status |-> status,
     asset_number |-> [year |-> BaseYear, seq |-> 1], depreciation_entries |-> << >>,
     disposal_date |-> None, disposal_amount |-> None, disposal_method |-> ""]

(***************************************************************************)
(* The calculator on its own: one asset that passed the create             *)
(* serializer's validation (salvage_value < purchase_cost, useful life     *)
(* > 0), at any date; its values are recalculated as the clock moves on.   *)
(***************************************************************************)
PurchaseDates == {0, DaysPerMonth * (MonthsPerYear - 1) + 1, 2 * DaysPerMonth * MonthsPerYear}

\* asset.calculate_current_values(); asset.save()
RecalculateValues(i) ==
    /\ i \in DOMAIN assets
    /\ assets' = [assets EXCEPT ![i] = calculate_current_values(@, today)]
    /\ last' = Outcome("values", i, TRUE, "")
    /\ UNCHANGED <<accounts, entries, faults, today, writers, commissions, advances>>

AdvanceClock(days) ==
    /\ today + days <= MaxDay
    /\ today' = today + days
    /\ last' = Outcome("clock", 0, TRUE, "")
    /\ UNCHANGED <<accounts, entries, faults, assets, writers, commissions, advances>>

InitCalc ==
    /\ accounts = ZeroAccounts
    /\ entries = << >>
    /\ last = [op |-> "none", entry |-> 0, ok |-> TRUE, error |-> "", fault |-> 0,
               after_post |-> FALSE, pre_post |-> ZeroAccounts]
    /\ faults = 0
    /\ commissions = << >>
    /\ advances = << >>
    /\ writers = << >>
    /\ today \in 0 .. MaxDay
    /\ \E cost \in 1 .. MaxCost, salvage \in 0 .. MaxCost, life \in 1 .. MaxLife,
          method \in DepreciationMethods, purchased \in PurchaseDates,
          status \in {"ACTIVE", "DISPOSED"} :
          /\ salvage < cost
          /\ assets = << NewAsset(cost, salvage, life, method, purchased, status) >>

(***************************************************************************)
(* What a DecimalField keeps of a value with more than two decimals.  The  *)
(* database adapter decides: Django's format_number quantizes with the     *)
(* context's ROUND_HALF_EVEN, a NUMERIC(15,2) column of PostgreSQL rounds  *)
(* half away from zero.                                                    *)
(***************************************************************************)
RoundingModes == {"ROUND_HALF_EVEN", "ROUND_HALF_UP"}

QuantizeHalfEven(x) ==
    LET a == Abs(x.n)
        q == a \div x.d
        r == a % x.d
        m == IF 2 * r < x.d THEN q
             ELSE IF 2 * r > x.d THEN q + 1
             ELSE IF q % 2 = 0 THEN q ELSE q + 1
    IN  IF x.n >= 0 THEN m ELSE 0 - m

StoreDecimal(x, rounding) ==
    IF rounding = "ROUND_HALF_EVEN" THEN QuantizeHalfEven(x) ELSE QuantizeHalfUp(x)

\* JournalEntryLine.save with amounts that are not whole cents: the sums are
\* made in memory and rounded when the account row is written.
AddDecimalToAccount(acc, a, d, c, rounding) ==
    LET debit == FracAdd(FracInt(acc[a].debit_balance), d)
        credit == FracAdd(FracInt(acc[a].credit_balance), c)
        balance == IF ACCOUNT_TYPES[a] \in {"ASSET", "EXPENSE"}
                   THEN FracSub(debit, credit) ELSE FracSub(credit, debit)
    IN  [acc EXCEPT ![a] = [debit_balance |-> StoreDecimal(debit, rounding),
                            credit_balance |-> StoreDecimal(credit, rounding),
                            balance |-> StoreDecimal(balance, rounding)]]

(***************************************************************************)
(* The asset category of the model: Equipment, as setup_asset_categories   *)
(* creates it.                                                             *)
(***************************************************************************)
CategoryAccounts ==
    [asset_account |-> "1500", depreciation_account |-> "1510", expense_account |-> "6000"]

CashAccount == "1000"
GainLossAccount == "8500"

\* Asset.generate_asset_number: f"{prefix}-{year}-{count + 1:04d}"
generate_asset_number(rows, year) ==
    [year |-> year,
     seq |-> Cardinality({i \in DOMAIN rows : rows[i].asset_number.year = year}) + 1]

PurchaseNumber(asset) ==
    [kind |-> "PURCH", asset |-> asset.asset_number.seq, year |-> asset.asset_number.year,
     suffix |-> asset.asset_number.seq]

DisposalNumber(asset, d) ==
    [kind |-> "DISP", asset |-> asset.asset_number.seq, year |-> asset.asset_number.year,
     suffix |-> DateNumber(d)]

DepreciationNumber(asset, d) ==
    [kind |-> "DEP", asset |-> asset.asset_number.seq, year |-> asset.asset_number.year,
     suffix |-> DateNumber(d)]

\* The lines of a list created one after the other, each updating its account.
RECURSIVE SaveLines(_, _)
SaveLines(acc, lines) ==
    IF lines = << >> THEN acc
    ELSE SaveLines(JournalEntryLine_save(acc, Head(lines).account,
                       Head(lines).debit_amount, Head(lines).credit_amount), Tail(lines))

(***************************************************************************)
(* Asset.create_purchase_journal_entry                                     *)
(***************************************************************************)
PurchaseLines(asset) ==
    << NewLine(CategoryAccounts.asset_account, asset.purchase_cost, 0),
       NewLine(CashAccount, 0, asset.purchase_cost) >>

PurchaseEntry(asset, i) ==
    [NewEntry(PurchaseNumber(asset), YearOf(asset.purchase_date), "PURCHASE", "POSTED")
        EXCEPT !.lines = PurchaseLines(asset), !.source = i]

(***************************************************************************)
(* with transaction.atomic(): an entry created with its lines.  `after` is *)
(* the chart of accounts once every line is saved.  fault = 1: the INSERT  *)
(* of the entry raises; fault = k + 1: the creation of line k raises (or a *)
(* lookup made just before it); the block then leaves nothing behind.      *)
(***************************************************************************)
\* A variant without the transaction: what was written stays.
AtomicCreate_NoTransaction(acc, ents, entry, after, fault) ==
    IF fault = 0 THEN [accounts |-> after, entries |-> Append(ents, entry)]
    ELSE IF fault = 1 THEN [accounts |-> acc, entries |-> ents]
    ELSE LET written == SubSeq(entry.lines, 1, fault - 2)
         IN  [accounts |-> SaveLines(acc, written),
              entries |-> Append(ents, [entry EXCEPT !.lines = written])]

AtomicCreate(acc, ents, entry, after, fault) ==
    IF fault = 0 THEN [accounts |-> after, entries |-> Append(ents, entry)]
    ELSE [accounts |-> acc, entries |-> ents]

\* existing_entry of create_purchase_journal_entry
ExistingPurchaseEntry(ents, i) ==
    \E e \in DOMAIN ents : ents[e].source = i /\ ents[e].entry_type = "PURCHASE"

\* A variant that also posts the entry it created, as the expense flow does.
PurchaseAttempt_ThenPost(acc, ents, asset, i, fault) ==
    IF ExistingPurchaseEntry(ents, i)
    THEN [accounts |-> acc, entries |-> ents, error |-> "exists"]
    ELSE IF fault = 0 /\ NumberTaken(ents, PurchaseNumber(asset))
    THEN [accounts |-> acc, entries |-> ents, error |-> "IntegrityError"]
    ELSE LET lines == PurchaseLines(asset)
             r == AtomicCreate(acc, ents, PurchaseEntry(asset, i),
                               PostLines(SaveLines(acc, lines), lines, Len(lines)), fault)
         IN  [accounts |-> r.accounts, entries |-> r.entries,
              error |-> IF fault = 0 THEN "" ELSE "DatabaseError"]

\* Asset.create_purchase_journal_entry for asset i: what it leaves in the
\* ledger, and how it ended.  Every exception is caught and printed.
PurchaseAttempt(acc, ents, asset, i, fault) ==
    IF ExistingPurchaseEntry(ents, i)
    THEN [accounts |-> acc, entries |-> ents, error |-> "exists"]
    ELSE IF fault = 0 /\ NumberTaken(ents, PurchaseNumber(asset))
    THEN [accounts |-> acc, entries |-> ents, error |-> "IntegrityError"]
    ELSE LET r == AtomicCreate(acc, ents, PurchaseEntry(asset, i),
                               SaveLines(acc, PurchaseLines(asset)), fault)
         IN  [accounts |-> r.accounts, entries |-> r.entries,
              error |-> IF fault = 0 THEN "" ELSE "DatabaseError"]

(***************************************************************************)
(* Asset.save of a new asset (AssetViewSet.perform_create): number,        *)
(* current values, INSERT, then the purchase entry, whose failure is only  *)
(* printed.                                                                *)
(***************************************************************************)
MaxAssets == 1
MaxLedger == 3

CreateAsset(cost, salvage, life, method, purchased, status, fault) ==
    /\ Len(assets) < MaxAssets
    /\ Len(entries) < MaxLedger
    /\ salvage < cost
    /\ fault # 0 => faults < MaxFaults
    /\ LET i == Len(assets) + 1
           row == calculate_current_values(
                      [NewAsset(cost, salvage, life, method, purchased, status)
                          EXCEPT !.asset_number = generate_asset_number(assets, YearOf(today))],
                      today)
           r == IF cost > 0 THEN PurchaseAttempt(accounts, entries, row, i, fault)
                ELSE [accounts |-> accounts, entries |-> entries, error |-> ""]
       IN  /\ assets' = Append(assets, row)
           /\ accounts' = r.accounts
           /\ entries' = r.entries
           /\ last' = [Outcome("asset", i, TRUE, r.error) EXCEPT !.fault = fault]
    /\ faults' = IF fault = 0 THEN faults ELSE faults + 1
    /\ UNCHANGED <<today, writers, commissions, advances>>

\* A call of create_purchase_journal_entry on an asset that exists.
create_purchase_journal_entry(i, fault) ==
    /\ i \in DOMAIN assets
    /\ Len(entries) < MaxLedger
    /\ fault # 0 => faults < MaxFaults
    /\ LET r == PurchaseAttempt(accounts, entries, assets[i], i, fault)
       IN  /\ accounts' = r.accounts
           /\ entries' = r.entries
           /\ last' = [Outcome("purchase", i, r.error \in {"", "exists"}, r.error)
                          EXCEPT !.fault = fault]
    /\ faults' = IF fault = 0 THEN faults ELSE faults + 1
    /\ UNCHANGED <<assets, today, writers, commissions, advances>>

(***************************************************************************)
(* Asset.annual_depreciation, monthly_depreciation and                     *)
(* calculate_current_depreciation                                          *)
(***************************************************************************)
annual_depreciation(asset) ==
    IF asset.status \in {"DISPOSED", "SOLD"} THEN FracInt(0)
    ELSE IF asset.depreciation_method \in {"DECLINING_BALANCE", "DOUBLE_DECLINING"}
    THEN IF asset.current_book_value - asset.salvage_value <= 0 THEN FracInt(0)
         ELSE FracMul(FracInt(asset.current_book_value - asset.salvage_value),
                      depreciation_rate(asset))
    ELSE Frac(asset.purchase_cost - asset.salvage_value, asset.useful_life_years)

monthly_depreciation(asset) == FracMul(annual_depreciation(asset), Frac(1, MonthsPerYear))

(***************************************************************************)
(* Asset.generate_depreciation_schedule.  An entry's three amounts are     *)
(* written with quantize(Decimal('0.01')), which rounds half to even.      *)
(***************************************************************************)
RECURSIVE ScheduleLoop(_, _, _, _, _)
ScheduleLoop(asset, month, remaining_value, accumulated_dep, schedule) ==
    IF month >= asset.useful_life_years * MonthsPerYear THEN schedule
    ELSE IF FracLeq(remaining_value, FracInt(asset.salvage_value)) THEN schedule
    ELSE LET computed ==
                 IF asset.depreciation_method \in {"DECLINING_BALANCE", "DOUBLE_DECLINING"}
                 THEN FracMul(FracMul(remaining_value, depreciation_rate(asset)),
                              Frac(1, MonthsPerYear))
                 ELSE monthly_depreciation(asset)
             monthly_dep ==
                 IF FracLess(FracSub(remaining_value, computed), FracInt(asset.salvage_value))
                 THEN FracSub(remaining_value, FracInt(asset.salvage_value))
                 ELSE computed
         IN  IF FracLeq(monthly_dep, FracInt(0)) THEN schedule
             ELSE ScheduleLoop(asset, month + 1,
                      FracSub(remaining_value, monthly_dep),
                      FracAdd(accumulated_dep, monthly_dep),
                      Append(schedule,
                          [month |-> month,
                           depreciation_amount |-> QuantizeHalfEven(monthly_dep),
                           accumulated_depreciation |->
                               QuantizeHalfEven(FracAdd(accumulated_dep, monthly_dep)),
                           book_value |->
                               QuantizeHalfEven(FracSub(remaining_value, monthly_dep))]))

generate_depreciation_schedule(asset) ==
    IF asset.status \in {"DISPOSED", "SOLD"} THEN << >>
    ELSE ScheduleLoop(asset, 0, FracInt(asset.purchase_cost), FracInt(0), << >>)

\* A quotient Decimal holds exactly: its reduced denominator has no prime
\* factor other than 2 and 5.  Any other quotient is cut at 28 significant
\* digits by the division of monthly_depreciation.
RECURSIVE StripFactor(_, _)
StripFactor(n, p) == IF n % p = 0 THEN StripFactor(n \div p, p) ELSE n

IsExactDecimal(x) == StripFactor(StripFactor(x.d, 2), 5) = 1

\* GET /assets/{id}/depreciation_schedule/.  The declining-balance schedules
\* multiply the remaining value month after month and are carried by Decimal
\* at 28 significant digits; the model asks for the schedules whose amounts
\* it holds exactly.
depreciation_schedule(i) ==
    /\ i \in DOMAIN assets
    /\ assets[i].depreciation_method \notin {"DECLINING_BALANCE", "DOUBLE_DECLINING"}
    /\ IsExactDecimal(monthly_depreciation(assets[i]))
    /\ last' = [op |-> "schedule", entry |-> i, ok |-> TRUE, error |-> "", fault |-> 0,
                after_post |-> FALSE, pre_post |-> ZeroAccounts,
                schedule |-> generate_depreciation_schedule(assets[i])]
    /\ UNCHANGED <<accounts, entries, faults, assets, today, writers, commissions, advances>>

NextCalc ==
    \/ RecalculateValues(1)
    \/ depreciation_schedule(1)
    \/ \E days \in {1, DaysPerMonth} : AdvanceClock(days)

SpecCalc == InitCalc /\ [][NextCalc]_vars

calculate_current_depreciation(asset, t) ==
    IF asset.status \in {"DISPOSED", "SOLD"} THEN FracInt(0)
    ELSE IF \E k \in DOMAIN asset.depreciation_entries :
                /\ asset.depreciation_entries[k].period_month = MonthOf(t)
                /\ asset.depreciation_entries[k].period_year = YearOf(t)
    THEN FracInt(0)
    ELSE monthly_depreciation(asset)

(***************************************************************************)
(* One asset's turn in the depreciation tasks (tasks.py 29-68 and 81-110): *)
(* the AssetDepreciation record, the asset's fields and save(), then       *)
(* tasks.create_depreciation_journal_entry, which creates the entry POSTED *)
(* with its two lines in one transaction and only logs its own failure.    *)
(* Each write is committed as it is made.  fault = 1: the record's INSERT  *)
(* raises; 2: asset.save() raises; 3: the journal entry cannot be created. *)
(* st is the database: [accounts, entries, assets].                        *)
(***************************************************************************)
DepreciationLines(amount) ==
    << NewLine(CategoryAccounts.expense_account, amount, 0),
       NewLine(CategoryAccounts.depreciation_account, 0, amount) >>

DepreciationRecord(t, amount) ==
    [period_year |-> YearOf(t), period_month |-> MonthOf(t), amount |-> amount]

\* asset.accumulated_depreciation += amount; current_book_value = max(...);
\* asset.save(), whose calculate_current_values() replaces the two fields
\* unless it returns early.
DepreciatedAsset(asset, amount, t, rounding) ==
    LET accumulated == FracAdd(FracInt(asset.accumulated_depreciation), amount)
        remaining == FracSub(FracInt(asset.purchase_cost), accumulated)
        book == IF FracLess(remaining, FracInt(asset.salvage_value))
                THEN FracInt(asset.salvage_value) ELSE remaining
    IN  IF asset.status \in {"DISPOSED", "SOLD"} \/ asset.purchase_date > t
        THEN [asset EXCEPT
                !.accumulated_depreciation = StoreDecimal(accumulated, rounding),
                !.current_book_value = StoreDecimal(book, rounding)]
        ELSE calculate_current_values(asset, t)

\* tasks.create_depreciation_journal_entry
DepreciationEntry(acc, ents, asset, i, amount, t, rounding, fault) ==
    LET num == DepreciationNumber(asset, t)
        lines == DepreciationLines(StoreDecimal(amount, rounding))
        entry == [NewEntry(num, YearOf(t), "DEPRECIATION", "POSTED")
                     EXCEPT !.lines = lines, !.source = i]
        after == AddDecimalToAccount(
                     AddDecimalToAccount(acc, lines[1].account, amount, FracInt(0), rounding),
                     lines[2].account, FracInt(0), amount, rounding)
    IN  IF fault = 0 /\ NumberTaken(ents, num)
        THEN [accounts |-> acc, entries |-> ents]
        ELSE AtomicCreate(acc, ents, entry, after, fault)

DepreciateOne(st, i, t, rounding, fault) ==
    LET asset == st.assets[i]
        amount == calculate_current_depreciation(asset, t)
        recorded == [asset EXCEPT !.depreciation_entries =
                        Append(@, DepreciationRecord(t, StoreDecimal(amount, rounding)))]
        saved == DepreciatedAsset(recorded, amount, t, rounding)
        journal == DepreciationEntry(st.accounts, st.entries, asset, i, amount, t, rounding,
                                     IF fault = 3 THEN 1 ELSE 0)
    IN  IF ~FracLess(FracInt(0), amount) \/ fault = 1 THEN st
        ELSE IF fault = 2 THEN [st EXCEPT !.assets[i] = recorded]
        ELSE [accounts |-> journal.accounts, entries |-> journal.entries,
              assets |-> [st.assets EXCEPT ![i] = saved]]

Database == [accounts |-> accounts, entries |-> entries, assets |-> assets]

(***************************************************************************)
(* tasks.calculate_asset_depreciation(asset_id)                            *)
(***************************************************************************)
calculate_asset_depreciation(i, rounding, fault) ==
    /\ i \in DOMAIN assets
    /\ Len(entries) < MaxLedger
    /\ fault # 0 => faults < MaxFaults
    /\ LET st == DepreciateOne(Database, i, today, rounding, fault)
           due == FracLess(FracInt(0), calculate_current_depreciation(assets[i], today))
       IN  /\ accounts' = st.accounts
           /\ entries' = st.entries
           /\ assets' = st.assets
           /\ last' = [Outcome("depreciation", i, due /\ fault \in {0, 3},
                               IF ~due THEN "No depreciation calculated"
                               ELSE IF fault = 0 THEN "" ELSE "DatabaseError")
                          EXCEPT !.fault = fault]
    /\ faults' = IF fault = 0 THEN faults ELSE faults + 1
    /\ UNCHANGED <<today, writers, commissions, advances>>

(***************************************************************************)
(* tasks.calculate_monthly_depreciation: every ACTIVE asset with a useful  *)
(* life in turn; an exception ends that asset's turn only.  The failure    *)
(* `fault` happens in the turn of asset `failing`.                         *)
(***************************************************************************)
RECURSIVE MonthlyLoop(_, _, _, _, _, _)
MonthlyLoop(st, k, t, rounding, failing, fault) ==
    IF k = 0 THEN st
    ELSE LET before == MonthlyLoop(st, k - 1, t, rounding, failing, fault)
         IN  IF before.assets[k].status = "ACTIVE" /\ before.assets[k].useful_life_years > 0
             THEN DepreciateOne(before, k, t, rounding, IF k = failing THEN fault ELSE 0)
             ELSE before

calculate_monthly_depreciation(rounding, failing, fault) ==
    /\ fault # 0 => (faults < MaxFaults /\ failing \in DOMAIN assets)
    /\ fault = 0 => failing = 0
    /\ LET st == MonthlyLoop(Database, Len(assets), today, rounding, failing, fault)
       IN  /\ accounts' = st.accounts
           /\ entries' = st.entries
           /\ assets' = st.assets
           /\ last' = [Outcome("monthly", failing, TRUE, "") EXCEPT !.fault = fault]
    /\ faults' = IF fault = 0 THEN faults ELSE faults + 1
    /\ UNCHANGED <<today, writers, commissions, advances>>

(***************************************************************************)
(* AssetViewSet.dispose -> Asset.create_disposal_entry, with today as the  *)
(* disposal date.  The asset is saved as DISPOSED first; the entry and its *)
(* lines are created POSTED in one transaction; if that fails the asset is *)
(* set back to ACTIVE, saved, and the error is raised.                     *)
(***************************************************************************)
DisposalLines(asset, disposal_amount) ==
    LET gain_loss == disposal_amount - asset.current_book_value
    IN  (IF disposal_amount > 0 THEN << NewLine(CashAccount, disposal_amount, 0) >> ELSE << >>)
        \o << NewLine(CategoryAccounts.depreciation_account, asset.accumulated_depreciation, 0),
              NewLine(CategoryAccounts.asset_account, 0, asset.purchase_cost) >>
        \o (IF gain_loss > 0 THEN << NewLine(GainLossAccount, 0, Abs(gain_loss)) >>
            ELSE IF gain_loss < 0 THEN << NewLine(GainLossAccount, Abs(gain_loss), 0) >>
            ELSE << >>)

\* The except branch: the asset is set to ACTIVE with empty disposal fields
\* and saved, which recalculates its values.
DisposalUndone(asset, t) ==
    calculate_current_values(
        [asset EXCEPT !.status = "ACTIVE", !.disposal_date = None,
                      !.disposal_amount = None, !.disposal_method = ""], t)

Dispose(i, disposal_amount, fault) ==
    /\ i \in DOMAIN assets
    /\ Len(entries) < MaxLedger
    /\ fault # 0 => faults < MaxFaults
    /\ LET asset == assets[i]
           num == DisposalNumber(asset, today)
           lines == DisposalLines(asset, disposal_amount)
           entry == [NewEntry(num, YearOf(today), "DISPOSAL", "POSTED")
                        EXCEPT !.lines = lines, !.source = i]
           r == AtomicCreate(accounts, entries, entry, SaveLines(accounts, lines), fault)
       IN  IF fault # 0 \/ NumberTaken(entries, num)
           THEN /\ assets' = [assets EXCEPT ![i] = DisposalUndone(asset, today)]
                /\ last' = [Outcome("dispose", i, FALSE,
                                    IF fault # 0 THEN "DatabaseError" ELSE "IntegrityError")
                               EXCEPT !.fault = fault]
                /\ UNCHANGED <<accounts, entries>>
           ELSE /\ assets' = [assets EXCEPT ![i] =
                       [asset EXCEPT !.status = "DISPOSED", !.disposal_date = today,
                                     !.disposal_amount = disposal_amount,
                                     !.disposal_method = "SALE"]]
                /\ entries' = r.entries
                /\ accounts' = r.accounts
                /\ last' = Outcome("dispose", i, TRUE, "")
    /\ faults' = IF fault = 0 THEN faults ELSE faults + 1
    /\ UNCHANGED <<today, writers, commissions, advances>>

(***************************************************************************)
(* The asset lifecycle next to the expense flow.                           *)
(***************************************************************************)
AssetCost == 24
LifecycleMonths == 2

NextLifecycle ==
    \/ \E amount \in 1 .. MaxAmount :
          Len(entries) < MaxLedger /\ RecordExpense(amount, "CASH", YearOf(today), 0)
    \/ \E salvage \in {0, 1}, method \in {"STRAIGHT_LINE", "DOUBLE_DECLINING"},
          purchased \in {today, today + DaysPerMonth} :
          \E status \in {"ACTIVE", "INACTIVE"}, f \in 0 .. 3 :
              CreateAsset(AssetCost, salvage, 1, method, purchased, status, f)
    \/ \E i \in 1 .. MaxAssets, rounding \in RoundingModes, f \in 0 .. 3 :
          calculate_asset_depreciation(i, rounding, f)
    \/ \E rounding \in RoundingModes, k \in 0 .. MaxAssets, f \in 0 .. 3 :
          /\ Len(entries) + Len(assets) <= MaxLedger
          /\ calculate_monthly_depreciation(rounding, k, f)
    \/ \E i \in 1 .. MaxAssets, amount \in {0, AssetCost \div 2, AssetCost}, f \in 0 .. 1 :
          Dispose(i, amount, f)
    \/ \E i \in 1 .. MaxAssets, f \in 0 .. 3 : create_purchase_journal_entry(i, f)
    \/ \E i \in 1 .. MaxAssets : RecalculateValues(i)
    \/ today + DaysPerMonth <= LifecycleMonths * DaysPerMonth /\ AdvanceClock(DaysPerMonth)

SpecLifecycle == Init /\ [][NextLifecycle]_vars

(***************************************************************************)
(* The monthly run over the life of one asset and beyond: an ACTIVE asset  *)
(* with a useful life of one year is created, the run is started in any of *)
(* the following months.                                                   *)
(***************************************************************************)
MaxPeriods == 12        \* months after the first that the runs go on for

NextMonthly ==
    \/ \E salvage \in {0, 1}, method \in {"STRAIGHT_LINE", "DOUBLE_DECLINING"} :
          CreateAsset(AssetCost, salvage, 1, method, today, "ACTIVE", 0)
    \/ \E rounding \in RoundingModes : calculate_monthly_depreciation(rounding, 0, 0)
    \/ today + DaysPerMonth <= MaxPeriods * DaysPerMonth /\ AdvanceClock(DaysPerMonth)

SpecMonthly == Init /\ [][NextMonthly]_vars

(***************************************************************************)
(* Depreciation runs side by side (two Celery workers; the beat schedule's *)
(* calculate_monthly_depreciation next to calculate_asset_depreciation     *)
(* started from the API).  A run's turn for an asset is three steps, each  *)
(* committed on its own: the lookup in calculate_current_depreciation, the *)
(* record with the asset's save, the journal entry.  The run works on the  *)
(* asset object it loaded.                                                 *)
(***************************************************************************)
MaxRuns == 2

IdleRun == [pc |-> "start", asset |-> 0, amount |-> FracInt(0)]

RunCheck(r, i) ==
    /\ r \in DOMAIN writers
    /\ i \in DOMAIN assets
    /\ writers[r].pc = "start"
    /\ Len(entries) < MaxLedger
    /\ LET amount == calculate_current_depreciation(assets[i], today)
       IN  writers' = [writers EXCEPT ![r] =
                          IF FracLess(FracInt(0), amount)
                          THEN [pc |-> "due", asset |-> i, amount |-> amount, loaded |-> assets[i]]
                          ELSE [pc |-> "done", asset |-> i, amount |-> amount, loaded |-> assets[i]]]
    /\ last' = Outcome("check", i, TRUE, "")
    /\ UNCHANGED <<accounts, entries, faults, assets, today, commissions, advances>>

RunRecord(r, rounding) ==
    /\ r \in DOMAIN writers
    /\ writers[r].pc = "due"
    /\ LET i == writers[r].asset
           amount == writers[r].amount
           record == DepreciationRecord(today, StoreDecimal(amount, rounding))
           saved == DepreciatedAsset(writers[r].loaded, amount, today, rounding)
       IN  assets' = [assets EXCEPT ![i] =
                         [saved EXCEPT !.depreciation_entries =
                             Append(assets[i].depreciation_entries, record)]]
    /\ writers' = [writers EXCEPT ![r].pc = "recorded"]
    /\ last' = Outcome("record", writers[r].asset, TRUE, "")
    /\ UNCHANGED <<accounts, entries, faults, today, commissions, advances>>

RunJournal(r, rounding) ==
    /\ r \in DOMAIN writers
    /\ writers[r].pc = "recorded"
    /\ LET i == writers[r].asset
           j == DepreciationEntry(accounts, entries, assets[i], i, writers[r].amount,
                                  today, rounding, 0)
       IN  /\ accounts' = j.accounts
           /\ entries' = j.entries
    /\ writers' = [writers EXCEPT ![r].pc = "done"]
    /\ last' = Outcome("journal", writers[r].asset, TRUE, "")
    /\ UNCHANGED <<faults, assets, today, commissions, advances>>

\* The worker takes its next task.
RunAgain(r) ==
    /\ r \in DOMAIN writers
    /\ writers[r].pc = "done"
    /\ writers' = [writers EXCEPT ![r] = IdleRun]
    /\ last' = Outcome("task", 0, TRUE, "")
    /\ UNCHANGED <<accounts, entries, faults, assets, today, commissions, advances>>

\* One asset bought and saved on day 0, with its purchase entry.
InitRuns ==
    /\ last = [op |-> "none", entry |-> 0, ok |-> TRUE, error |-> "", fault |-> 0,
               after_post |-> FALSE, pre_post |-> ZeroAccounts]
    /\ faults = 0
    /\ commissions = << >>
    /\ advances = << >>
    /\ today = 0
    /\ writers = [r \in 1 .. MaxRuns |-> IdleRun]
    /\ \E salvage \in {0, 1}, method \in {"STRAIGHT_LINE", "DOUBLE_DECLINING"} :
          LET row == calculate_current_values(
                         NewAsset(AssetCost, salvage, 1, method, 0, "ACTIVE"), 0)
          IN  /\ assets = << row >>
              /\ entries = << PurchaseEntry(row, 1) >>
              /\ accounts = SaveLines(ZeroAccounts, PurchaseLines(row))

NextRuns ==
    \/ \E r \in 1 .. MaxRuns, i \in 1 .. MaxAssets : RunCheck(r, i)
    \/ \E r \in 1 .. MaxRuns, rounding \in RoundingModes : RunRecord(r, rounding)
    \/ \E r \in 1 .. MaxRuns, rounding \in RoundingModes : RunJournal(r, rounding)
    \/ \E r \in 1 .. MaxRuns : RunAgain(r)
    \/ \E days \in {1, DaysPerMonth} :
          today + days <= LifecycleMonths * DaysPerMonth /\ AdvanceClock(days)

SpecRuns == InitRuns /\ [][NextRuns]_vars

(***************************************************************************)
(* Commissions and advances (sales/models.py, sales/serializers.py,        *)
(* sales/views.py).  Users are named; "m" has role MANAGER, the others are *)
(* employees.  An absent employee field of a request is NoEmployee.        *)
(***************************************************************************)
MaxCommissions == 2
MaxAdvances == 2
MaxSalesDay == 1

Users == {"e1", "e2", "m"}
Role == [u \in Users |-> IF u = "m" THEN "MANAGER" ELSE "SALES_AGENT"]
NoEmployee == ""
Jobs == {1, 2}

\* Commission.id (a fresh uuid4): never the id of a row that exists.
NewCommissionId(rows) ==
    CHOOSE i \in 1 .. Len(rows) + 1 :
        /\ \A k \in DOMAIN rows : rows[k].id # i
        /\ \A j \in 1 .. i - 1 : \E k \in DOMAIN rows : rows[k].id = j

\* .aggregate(total=Sum(field))['total'] or Decimal('0.00') over the rows S.
RECURSIVE Sum(_, _)
Sum(f, S) ==
    IF S = {} THEN 0
    ELSE LET k == CHOOSE k \in S : TRUE
         IN  f[k] + Sum(f, S \ {k})

\* Commission.save: commission_amount = service_amount * commission_rate / 100,
\* stored at two decimal places.
commission_amount(service_amount, commission_rate, rounding) ==
    StoreDecimal(Frac(service_amount * commission_rate, 100), rounding)

\* JobSerializer._create_commissions_for_job_line, for one assigned employee.
CreateCommission(employee, job, service_amount, commission_rate, rounding) ==
    /\ Len(commissions) < MaxCommissions
    /\ commissions' = Append(commissions,
           [id |-> NewCommissionId(commissions), employee |-> employee, job |-> job,
            commission_amount |-> commission_amount(service_amount, commission_rate, rounding),
            status |-> "AVAILABLE"])
    /\ last' = Outcome("commission", Len(commissions) + 1, TRUE, "")
    /\ UNCHANGED <<accounts, entries, faults, assets, today, writers, advances>>

\* CommissionViewSet.mark_payable
mark_payable(commission_ids) ==
    /\ commission_ids # {}
    /\ commissions' = [c \in DOMAIN commissions |->
           IF c \in commission_ids /\ commissions[c].status = "AVAILABLE"
           THEN [commissions[c] EXCEPT !.status = "PAYABLE"]
           ELSE commissions[c]]
    /\ last' = Outcome("mark_payable", commission_ids, TRUE, "")
    /\ UNCHANGED <<accounts, entries, faults, assets, today, writers, advances>>

\* CommissionViewSet.mark_paid
mark_paid(commission_ids) ==
    /\ commission_ids # {}
    /\ LET employee_ids == {commissions[c].employee :
                               c \in {k \in commission_ids : commissions[k].status = "PAYABLE"}}
       IN  /\ commissions' = [c \in DOMAIN commissions |->
                  IF c \in commission_ids /\ commissions[c].status = "PAYABLE"
                  THEN [commissions[c] EXCEPT !.status = "PAID"]
                  ELSE commissions[c]]
           /\ advances' = [a \in DOMAIN advances |->
                  IF /\ advances[a].employee \in employee_ids
                     /\ advances[a].status \in {"APPROVED", "PAID"}
                  THEN [advances[a] EXCEPT !.status = "RECOVERED"]
                  ELSE advances[a]]
    /\ last' = Outcome("mark_paid", commission_ids, TRUE, "")
    /\ UNCHANGED <<accounts, entries, faults, assets, today, writers>>

\* ReceiptViewSet.generate_from_payment for a payment that completes the
\* job's final_total: the job's AVAILABLE commissions become PAYABLE.
generate_from_payment(job) ==
    /\ commissions' = [c \in DOMAIN commissions |->
           IF commissions[c].job = job /\ commissions[c].status = "AVAILABLE"
           THEN [commissions[c] EXCEPT !.status = "PAYABLE"]
           ELSE commissions[c]]
    /\ last' = Outcome("receipt", job, TRUE, "")
    /\ UNCHANGED <<accounts, entries, faults, assets, today, writers, advances>>

\* JobSerializer.update with lines: the job's commissions are deleted and
\* one is created for the employee assigned to the new line, if any.
JobSerializer_update(job, employee, service_amount, commission_rate, rounding) ==
    LET kept == SelectSeq(commissions, LAMBDA c : c.job # job)
    IN  /\ \E c \in DOMAIN commissions : commissions[c].job = job
        /\ commissions' =
              IF employee = NoEmployee THEN kept
              ELSE Append(kept,
                     [id |-> NewCommissionId(commissions), employee |-> employee, job |-> job,
                      commission_amount |->
                          commission_amount(service_amount, commission_rate, rounding),
                      status |-> "AVAILABLE"])
        /\ last' = Outcome("job_update", job, TRUE, "")
        /\ UNCHANGED <<accounts, entries, faults, assets, today, writers, advances>>

\* CommissionSerializer.validate_status
valid_transitions ==
    [AVAILABLE |-> {"PAYABLE", "CANCELLED"},
     PAYABLE   |-> {"PAID", "CANCELLED"},
     PAID      |-> {},
     CANCELLED |-> {}]

\* The update without validate_status.
CommissionSerializer_update_Unvalidated(c, status) ==
    /\ c \in DOMAIN commissions
    /\ commissions' = [commissions EXCEPT ![c].status = status]
    /\ last' = Outcome("update", c, TRUE, "")
    /\ UNCHANGED <<accounts, entries, faults, assets, today, writers, advances>>

\* PUT/PATCH /commissions/{id}/ with a status: validate_status, then
\* CommissionSerializer.update.
CommissionSerializer_update(c, status) ==
    /\ c \in DOMAIN commissions
    /\ LET old_status == commissions[c].status
       IN  IF status # old_status /\ status \notin valid_transitions[old_status]
           THEN /\ last' = Outcome("update", c, FALSE, "ValidationError")
                /\ UNCHANGED commissions
           ELSE /\ commissions' = [commissions EXCEPT ![c].status = status]
                /\ last' = Outcome("update", c, TRUE, "")
    /\ UNCHANGED <<accounts, entries, faults, assets, today, writers, advances>>

pending_commission(employee) ==
    Sum([c \in DOMAIN commissions |-> commissions[c].commission_amount],
        {c \in DOMAIN commissions :
            /\ commissions[c].employee = employee
            /\ commissions[c].status \in {"AVAILABLE", "PAYABLE"}})

unrecovered_advances(employee) ==
    Sum([a \in DOMAIN advances |-> advances[a].approved_amount],
        {a \in DOMAIN advances :
            /\ advances[a].employee = employee
            /\ advances[a].status \in {"APPROVED", "PAID"}})

Max(x, y) == IF x >= y THEN x ELSE y

available_commission(employee) ==
    Max(pending_commission(employee) - unrecovered_advances(employee), 0)

existing_advance_today(employee) ==
    \E a \in DOMAIN advances :
        advances[a].employee = employee /\ advances[a].requested_at = today

PaidAdvance(employee, requested_amount, available) ==
    [employee |-> employee, requested_amount |-> requested_amount,
     approved_amount |-> requested_amount, available_commission |-> available,
     status |-> "PAID", requested_at |-> today]

\* POST /advance-payments/: validate_requested_amount, then
\* AdvancePaymentCreateSerializer.create.  last.entry is the employee the
\* advance is for and the amount asked.
AdvancePaymentCreateSerializer_create(request_user, employee, requested_amount) ==
    LET can_record_for_others == Role[request_user] \in {"ADMIN", "MANAGER"}
        target == IF employee # NoEmployee THEN employee ELSE request_user
        error ==
            IF requested_amount <= 0 THEN "ValidationError: amount"
            ELSE IF employee # NoEmployee /\ ~can_record_for_others
                 THEN "ValidationError: permission"
            ELSE IF existing_advance_today(target) THEN "ValidationError: today"
            ELSE IF requested_amount > available_commission(target)
                 THEN "ValidationError: available"
            ELSE ""
    IN  /\ Len(advances) < MaxAdvances
        /\ IF error = ""
           THEN advances' = Append(advances,
                    PaidAdvance(target, requested_amount, available_commission(target)))
           ELSE UNCHANGED advances
        /\ last' = Outcome("create_advance", <<target, requested_amount>>, error = "", error)
        /\ UNCHANGED <<accounts, entries, faults, assets, today, writers, commissions>>

\* POST /advance-payments/give_advance/ by a manager: the serializer's
\* is_valid, then the view's own check against PAYABLE commissions.
give_advance(request_user, employee, requested_amount) ==
    LET target == IF employee # NoEmployee THEN employee ELSE request_user
        available_commissions ==
            Sum([c \in DOMAIN commissions |-> commissions[c].commission_amount],
                {c \in DOMAIN commissions :
                    /\ commissions[c].employee = target
                    /\ commissions[c].status = "PAYABLE"})
        error ==
            IF requested_amount <= 0 THEN "ValidationError: amount"
            ELSE IF requested_amount > available_commissions THEN "400: available"
            ELSE ""
    IN  /\ Role[request_user] \in {"ADMIN", "MANAGER"}
        /\ Len(advances) < MaxAdvances
        /\ IF error = ""
           THEN advances' = Append(advances,
                    PaidAdvance(target, requested_amount, available_commissions))
           ELSE UNCHANGED advances
        /\ last' = Outcome("give_advance", <<target, requested_amount>>, error = "", error)
        /\ UNCHANGED <<accounts, entries, faults, assets, today, writers, commissions>>

\* AdvancePaymentViewSet.review
review(a, action, approved_amount) ==
    /\ a \in DOMAIN advances
    /\ IF advances[a].status # "PENDING"
       THEN /\ last' = Outcome("review", a, FALSE, "400: not pending")
            /\ UNCHANGED advances
       ELSE IF action = "approve" /\ approved_amount <= 0
       THEN /\ last' = Outcome("review", a, FALSE, "ValidationError")
            /\ UNCHANGED advances
       ELSE IF action = "approve" /\ approved_amount > advances[a].available_commission
       THEN /\ last' = Outcome("review", a, FALSE, "400: available")
            /\ UNCHANGED advances
       ELSE /\ advances' = [advances EXCEPT ![a] =
                   IF action = "approve"
                   THEN [@ EXCEPT !.status = "APPROVED", !.approved_amount = approved_amount]
                   ELSE [@ EXCEPT !.status = "REJECTED"]]
            /\ last' = Outcome("review", a, TRUE, "")
    /\ UNCHANGED <<accounts, entries, faults, assets, today, writers, commissions>>

\* AdvancePaymentViewSet.mark_paid
AdvancePayment_mark_paid(a) ==
    /\ a \in DOMAIN advances
    /\ IF advances[a].status # "APPROVED"
       THEN /\ last' = Outcome("advance_paid", a, FALSE, "400: not approved")
            /\ UNCHANGED advances
       ELSE /\ advances' = [advances EXCEPT ![a].status = "PAID"]
            /\ last' = Outcome("advance_paid", a, TRUE, "")
    /\ UNCHANGED <<accounts, entries, faults, assets, today, writers, commissions>>

\* AdvancePaymentViewSet.cancel
cancel(a) ==
    /\ a \in DOMAIN advances
    /\ IF advances[a].status = "PAID"
       THEN /\ last' = Outcome("cancel", a, FALSE, "400: paid")
            /\ UNCHANGED advances
       ELSE /\ advances' = [advances EXCEPT ![a].status = "CANCELLED"]
            /\ last' = Outcome("cancel", a, TRUE, "")
    /\ UNCHANGED <<accounts, entries, faults, assets, today, writers, commissions>>

NextDay ==
    /\ today < MaxSalesDay
    /\ today' = today + 1
    /\ last' = Outcome("clock", 0, TRUE, "")
    /\ UNCHANGED <<accounts, entries, faults, assets, writers, commissions, advances>>

ServiceAmounts == {5, 20}
CommissionRates == {50}
RequestedAmounts == {0, 3, 8}

NextSales ==
    \/ \E employee \in {"e1", "e2"}, rate \in CommissionRates, rounding \in RoundingModes :
          CreateCommission(employee, 1, 20, rate, rounding)
    \/ \E ids \in SUBSET (DOMAIN commissions) : mark_payable(ids)
    \/ \E ids \in SUBSET (DOMAIN commissions) : mark_paid(ids)
    \/ \E c \in 1 .. MaxCommissions, status \in {"PAID", "CANCELLED"} :
          CommissionSerializer_update(c, status)
    \/ \E user \in {"e1", "m"}, employee \in {NoEmployee, "e2"},
          amount \in RequestedAmounts :
          AdvancePaymentCreateSerializer_create(user, employee, amount)
    \/ \E employee \in {"e1", "e2"}, amount \in RequestedAmounts :
          give_advance("m", employee, amount)
    \/ \E a \in 1 .. MaxAdvances, action \in {"approve", "reject"} : review(a, action, 3)
    \/ \E a \in 1 .. MaxAdvances : AdvancePayment_mark_paid(a)
    \/ \E a \in 1 .. MaxAdvances : cancel(a)
    \/ NextDay

SpecSales == Init /\ [][NextSales]_vars

\* Commissions and advances without the cancellation of a commission, the
\* cancellation of an advance and the replacement of job lines.
NextAdvances ==
    \/ \E employee \in {"e1", "e2"}, rate \in CommissionRates, rounding \in RoundingModes :
          CreateCommission(employee, 1, 20, rate, rounding)
    \/ \E ids \in SUBSET (DOMAIN commissions) : mark_payable(ids)
    \/ \E ids \in SUBSET (DOMAIN commissions) : mark_paid(ids)
    \/ \E user \in {"e1", "m"}, employee \in {NoEmployee, "e2"}, amount \in RequestedAmounts :
          AdvancePaymentCreateSerializer_create(user, employee, amount)
    \/ \E employee \in {"e1", "e2"}, amount \in RequestedAmounts :
          give_advance("m", employee, amount)
    \/ \E a \in 1 .. MaxAdvances, action \in {"approve", "reject"} : review(a, action, 3)
    \/ \E a \in 1 .. MaxAdvances : AdvancePayment_mark_paid(a)
    \/ NextDay

SpecAdvances == Init /\ [][NextAdvances]_vars

(***************************************************************************)
(* The operations on commissions alone, over two jobs.                     *)
(***************************************************************************)
NextCommissions ==
    \/ \E employee \in {"e1", "e2"}, job \in Jobs, service_amount \in ServiceAmounts,
          rate \in CommissionRates, rounding \in RoundingModes :
          CreateCommission(employee, job, service_amount, rate, rounding)
    \/ \E ids \in SUBSET (DOMAIN commissions) : mark_payable(ids)
    \/ \E ids \in SUBSET (DOMAIN commissions) : mark_paid(ids)
    \/ \E job \in Jobs : generate_from_payment(job)
    \/ \E job \in Jobs, employee \in {NoEmployee, "e1"}, service_amount \in ServiceAmounts,
          rate \in CommissionRates, rounding \in RoundingModes :
          JobSerializer_update(job, employee, service_amount, rate, rounding)
    \/ \E c \in 1 .. MaxCommissions,
          status \in {"AVAILABLE", "PAYABLE", "PAID", "CANCELLED"} :
          CommissionSerializer_update(c, status)

SpecCommissions == Init /\ [][NextCommissions]_vars

(***************************************************************************)
(* JournalEntry.save under concurrent requests.  A request first runs the  *)
(* query for the year's last entry and computes its number, and later      *)
(* inserts the row; entry_number is unique=True.  save() takes no lock and *)
(* does not retry.                                                         *)
(***************************************************************************)
MaxWriters == 2
MaxSaved == 3

WriterYears == {BaseYear, BaseYear + 1}

IdleWriter == [pc |-> "start", year |-> 0, entry_number |-> GenNumber(0, 0)]

\* last_entry = JournalEntry.objects.filter(...).order_by('-entry_number').first()
\* and the number made from it
ReadLastEntry(w, year) ==
    /\ w \in DOMAIN writers
    /\ writers[w].pc = "start"
    /\ Len(entries) < MaxSaved
    /\ writers' = [writers EXCEPT ![w] = [pc |-> "read", year |-> year,
                       entry_number |-> GenerateEntryNumber(entries, year)]]
    /\ last' = Outcome("read", 0, TRUE, "")
    /\ UNCHANGED <<accounts, entries, faults, assets, today, commissions, advances>>

\* super().save(): the INSERT
InsertEntry(w) ==
    /\ w \in DOMAIN writers
    /\ writers[w].pc = "read"
    /\ IF NumberTaken(entries, writers[w].entry_number)
       THEN /\ writers' = [writers EXCEPT ![w].pc = "IntegrityError"]
            /\ last' = Outcome("create", 0, FALSE, "IntegrityError")
            /\ UNCHANGED entries
       ELSE /\ entries' = Append(entries,
                    NewEntry(writers[w].entry_number, writers[w].year, "MANUAL", "DRAFT"))
            /\ writers' = [writers EXCEPT ![w].pc = "saved"]
            /\ last' = Outcome("create", Len(entries) + 1, TRUE, "")
    /\ UNCHANGED <<accounts, faults, assets, today, commissions, advances>>

\* The worker takes its next request.
NextRequest(w) ==
    /\ w \in DOMAIN writers
    /\ writers[w].pc \in {"saved", "IntegrityError"}
    /\ writers' = [writers EXCEPT ![w] = IdleWriter]
    /\ last' = Outcome("request", 0, TRUE, "")
    /\ UNCHANGED <<accounts, entries, faults, assets, today, commissions, advances>>

InitWriters ==
    /\ accounts = ZeroAccounts
    /\ entries = << >>
    /\ last = [op |-> "none", entry |-> 0, ok |-> TRUE, error |-> "", fault |-> 0,
               after_post |-> FALSE, pre_post |-> ZeroAccounts]
    /\ faults = 0
    /\ commissions = << >>
    /\ advances = << >>
    /\ assets = << >>
    /\ today = 0
    /\ writers = [w \in 1 .. MaxWriters |-> IdleWriter]

NextWriters ==
    \/ \E w \in 1 .. MaxWriters, y \in WriterYears : ReadLastEntry(w, y)
    \/ \E w \in 1 .. MaxWriters : InsertEntry(w)
    \/ \E w \in 1 .. MaxWriters : NextRequest(w)

SpecWriters == InitWriters /\ [][NextWriters]_vars

(***************************************************************************)
(* Properties of the ledger.                                               *)
(***************************************************************************)
Balanced(lines) == SumDebits(lines) = SumCredits(lines)

\* Debits and credits the lines put on account a.
RECURSIVE DebitsOn(_, _), CreditsOn(_, _)
DebitsOn(lines, a) ==
    IF lines = << >> THEN 0
    ELSE (IF Head(lines).account = a THEN Head(lines).debit_amount ELSE 0) + DebitsOn(Tail(lines), a)
CreditsOn(lines, a) ==
    IF lines = << >> THEN 0
    ELSE (IF Head(lines).account = a THEN Head(lines).credit_amount ELSE 0) + CreditsOn(Tail(lines), a)

\* C1: when the database does not fail, post() on a DRAFT entry succeeds
\* exactly if its debits equal its credits, and on an unbalanced DRAFT entry
\* it raises and leaves every account and every entry as they were.
C1_ZeroSumPosting ==
    [][\A e \in DOMAIN entries :
          (last'.op = "post" /\ last'.entry = e /\ entries[e].status = "DRAFT"
              /\ last'.error # "DatabaseError")
          => /\ last'.ok <=> Balanced(entries[e].lines)
             /\ last'.ok => entries'[e].status = "POSTED"
             /\ ~Balanced(entries[e].lines) =>
                   /\ last'.error = "Debits must equal credits"
                   /\ accounts' = accounts
                   /\ entries' = entries]_vars

C1_Witness ==
    /\ last.op = "post" /\ ~last.ok /\ last.error = "Debits must equal credits"
    /\ entries[last.entry].status = "DRAFT"
    /\ \E a \in AccountCodes : accounts[a].debit_balance # accounts[a].credit_balance

\* C2: every account's balance is debit_balance - credit_balance for ASSET
\* and EXPENSE accounts and credit_balance - debit_balance for the others.
C2_BalanceInvariant ==
    \A a \in AccountCodes :
        accounts[a].balance =
            IF ACCOUNT_TYPES[a] \in {"ASSET", "EXPENSE"}
            THEN accounts[a].debit_balance - accounts[a].credit_balance
            ELSE accounts[a].credit_balance - accounts[a].debit_balance

C2_Witness ==
    /\ last.op = "reverse" /\ last.ok
    /\ accounts["2001"].credit_balance > accounts["2001"].debit_balance
    /\ accounts["1010"].debit_balance > accounts["1010"].credit_balance

\* C3: post(E) followed at once by reverse(E) leaves every account with the
\* debit_balance, credit_balance and balance it had before post(E), and E
\* REVERSED.
C3_ReversalIsInverse ==
    (last.op = "reverse" /\ last.ok /\ last.after_post)
    => /\ accounts = last.pre_post
       /\ entries[last.entry].status = "REVERSED"

\* ... reached for an entry with two lines on one account, on balances that
\* were not zero before the post.
C3_Witness ==
    /\ last.op = "reverse" /\ last.ok /\ last.after_post
    /\ Len(entries[last.entry].lines) = 2
    /\ entries[last.entry].lines[1].account = entries[last.entry].lines[2].account
    /\ last.pre_post # ZeroAccounts

\* C4 (as claimed): the expense flow changes each account's totals by the
\* entry's debits and credits on it, once; and creating a line of an entry
\* that is not posted changes no balance.
C4_EachLineOnce ==
    [][/\ (last'.op = "expense" /\ last'.ok) =>
            \A a \in AccountCodes :
               /\ accounts'[a].debit_balance - accounts[a].debit_balance
                     = DebitsOn(entries'[last'.entry].lines, a)
               /\ accounts'[a].credit_balance - accounts[a].credit_balance
                     = CreditsOn(entries'[last'.entry].lines, a)
       /\ (last'.op = "line" /\ entries[last'.entry].status = "DRAFT") =>
            accounts' = accounts]_vars

\* C6 (as claimed): a post() that fails at the account of some line after
\* the accounts of earlier lines were updated leaves no balance change
\* behind and the entry DRAFT.
C6_PostAllOrNothing ==
    [][(last'.op = "post" /\ last'.error = "DatabaseError"
           /\ last'.fault \in 2 .. Len(entries[last'.entry].lines))
          => /\ accounts' = accounts
             /\ entries'[last'.entry].status = "DRAFT"]_vars

\* C7: post() on an entry that is not DRAFT and reverse() on an entry that
\* is not POSTED fail and change no account and no entry.
C7_LifecycleGuarded ==
    [][\A e \in DOMAIN entries :
          /\ (last'.op = "post" /\ last'.entry = e /\ entries[e].status # "DRAFT")
                => (~last'.ok /\ last'.error = "Only draft entries can be posted"
                      /\ accounts' = accounts /\ entries' = entries)
          /\ (last'.op = "reverse" /\ last'.entry = e /\ entries[e].status # "POSTED")
                => (~last'.ok /\ last'.error = "Only posted entries can be reversed"
                      /\ accounts' = accounts /\ entries' = entries)]_vars

\* ... reached by posting a REVERSED entry whose lines did move balances.
C7_Witness ==
    /\ last.op = "post" /\ ~last.ok /\ last.error = "Only draft entries can be posted"
    /\ entries[last.entry].status = "REVERSED"
    /\ entries[last.entry].lines # << >>

(***************************************************************************)
(* Properties of the depreciation calculator.                              *)
(***************************************************************************)
\* C10: for an asset with salvage_value < purchase_cost and a useful life
\* > 0, whatever its method, calculate_current_values at any date on or
\* after the purchase date gives accumulated_depreciation <= purchase_cost
\* - salvage_value and current_book_value >= salvage_value.  (For a DISPOSED
\* or SOLD asset the method returns at once and calculates nothing.)
C10_DepreciationFloor ==
    \A i \in DOMAIN assets :
        (last.op = "values" /\ last.entry = i
            /\ assets[i].status \notin {"DISPOSED", "SOLD"}
            /\ assets[i].purchase_date <= today)
        => /\ assets[i].accumulated_depreciation
                 <= assets[i].purchase_cost - assets[i].salvage_value
           /\ assets[i].current_book_value >= assets[i].salvage_value

\* ... reached beyond the useful life, where the clamp decides the result.
C10_Witness ==
    /\ last.op = "values" /\ last.entry = 1 /\ assets[1].status = "ACTIVE"
    /\ months_owned(assets[1], today) > assets[1].useful_life_years * MonthsPerYear
    /\ assets[1].salvage_value > 0
    /\ assets[1].accumulated_depreciation = assets[1].purchase_cost - assets[1].salvage_value

(***************************************************************************)
(* Properties of entry numbering under concurrent writers.                 *)
(***************************************************************************)
\* C9: when two writers concurrently save new journal entries dated in the
\* same year, both saves succeed with distinct numbers: no writer fails on
\* the uniqueness constraint.
C9_ConcurrentWritersSucceed ==
    /\ \A w \in DOMAIN writers : writers[w].pc # "IntegrityError"
    /\ \A i, j \in DOMAIN entries :
          i # j => entries[i].entry_number # entries[j].entry_number

(***************************************************************************)
(* Properties of the entries the flows create.                             *)
(***************************************************************************)
\* C5: in every reachable state, every journal entry whose status is POSTED
\* (the PURCHASE, DEPRECIATION and DISPOSAL entries created directly as
\* POSTED included) has a sum of line debits equal to its sum of line
\* credits.
C5_PostedEntriesBalanced ==
    \A e \in DOMAIN entries :
        entries[e].status = "POSTED" => Balanced(entries[e].lines)

\* The largest suffix among the generated numbers of a year (0: none yet).
MaxGeneratedSuffix(ents, year) ==
    LET S == {ents[i].entry_number.suffix : i \in
                 {j \in DOMAIN ents : /\ ents[j].entry_number.kind = "GEN"
                                      /\ ents[j].entry_number.year = year}}
    IN  IF S = {} THEN 0 ELSE CHOOSE n \in S : \A m \in S : m <= n

\* C8: an entry saved without an entry_number for a date in year Y gets
\* Y-NNNNNN with NNNNNN one more than the largest suffix of the generated
\* numbers of year Y (000001 for the first), whatever other entries of the
\* year exist, and a sequential save never fails on a duplicate number.
C8_SequentialNumbering ==
    [][last'.op = "expense" =>
          /\ last'.error # "IntegrityError"
          /\ Len(entries') > Len(entries) =>
                LET E == entries'[Len(entries')]
                IN  E.entry_number = GenNumber(E.year, MaxGeneratedSuffix(entries, E.year) + 1)]_vars

(***************************************************************************)
(* Properties of the asset lifecycle.                                      *)
(***************************************************************************)
\* C11: after any sequence of asset saves, depreciation runs and value
\* updates, every asset that is not disposed has current_book_value =
\* purchase_cost - accumulated_depreciation, current_book_value >=
\* salvage_value and accumulated_depreciation <= purchase_cost - salvage_value.
C11_BookValueInvariant ==
    \A i \in DOMAIN assets :
        assets[i].status \notin {"DISPOSED", "SOLD"} =>
            /\ assets[i].current_book_value
                  = assets[i].purchase_cost - assets[i].accumulated_depreciation
            /\ assets[i].current_book_value >= assets[i].salvage_value
            /\ assets[i].accumulated_depreciation
                  <= assets[i].purchase_cost - assets[i].salvage_value

\* C13: a disposal of an asset with book value B for proceeds P records a
\* credit of P - B to the gain/loss account when P > B, a debit of B - P
\* when P < B, no gain/loss line when P = B, and in every case the entry's
\* debits equal its credits.
C13_DisposalGainLoss ==
    [][(last'.op = "dispose" /\ last'.ok) =>
          LET E == entries'[Len(entries')]
              B == assets[last'.entry].current_book_value
              P == assets'[last'.entry].disposal_amount
              onGainLoss == {k \in DOMAIN E.lines : E.lines[k].account = GainLossAccount}
          IN  /\ P > B => /\ CreditsOn(E.lines, GainLossAccount) = P - B
                          /\ DebitsOn(E.lines, GainLossAccount) = 0
              /\ P < B => /\ DebitsOn(E.lines, GainLossAccount) = B - P
                          /\ CreditsOn(E.lines, GainLossAccount) = 0
              /\ P = B => onGainLoss = {}
              /\ Balanced(E.lines)]_vars

\* C14: if journal creation fails during a disposal, the asset's status and
\* disposal fields are afterwards exactly what they were before the call,
\* whatever the status was, and no entry, line or balance change persists.
C14_DisposalAtomic ==
    [][(last'.op = "dispose" /\ ~last'.ok) =>
          LET i == last'.entry
          IN  /\ assets'[i].status = assets[i].status
              /\ assets'[i].disposal_date = assets[i].disposal_date
              /\ assets'[i].disposal_amount = assets[i].disposal_amount
              /\ assets'[i].disposal_method = assets[i].disposal_method
              /\ entries' = entries
              /\ accounts' = accounts]_vars

\* C15: once an asset is DISPOSED or SOLD every later operation leaves it
\* so: a further dispose call is rejected without changing the asset, and
\* depreciation runs and value updates change neither its status nor its
\* accumulated_depreciation and current_book_value.
C15_DisposedIsTerminal ==
    [][\A i \in DOMAIN assets :
          assets[i].status \in {"DISPOSED", "SOLD"} =>
              /\ assets'[i].status = assets[i].status
              /\ assets'[i].accumulated_depreciation = assets[i].accumulated_depreciation
              /\ assets'[i].current_book_value = assets[i].current_book_value
              /\ (last'.op = "dispose" /\ last'.entry = i) =>
                    (~last'.ok /\ assets'[i] = assets[i])]_vars

\* The PURCHASE entries whose source is asset i.
PurchaseEntriesOf(ents, i) ==
    {e \in DOMAIN ents : ents[e].entry_type = "PURCHASE" /\ ents[e].source = i}

\* C16: for any asset with purchase_cost > 0, after any number of saves and
\* create_purchase_journal_entry calls there is at most one PURCHASE entry
\* with the asset as source; it debits the category's asset account and
\* credits Cash by purchase_cost, and the step that creates it changes those
\* accounts by purchase_cost once, a call that finds it changes nothing.
C16_PurchaseIdempotent ==
    [][\A i \in DOMAIN assets' :
          LET now == PurchaseEntriesOf(entries', i)
              cost == assets'[i].purchase_cost
          IN  /\ Cardinality(now) <= 1
              /\ \A e \in now :
                    entries'[e].lines =
                        << NewLine(CategoryAccounts.asset_account, cost, 0),
                           NewLine(CashAccount, 0, cost) >>
              /\ (last'.op \in {"asset", "purchase"} /\ last'.entry = i) =>
                    IF now # {} /\ PurchaseEntriesOf(entries, i) = {}
                    THEN accounts' = AddToAccount(
                             AddToAccount(accounts, CategoryAccounts.asset_account, cost, 0),
                             CashAccount, 0, cost)
                    ELSE accounts' = accounts]_vars

\* ... reached when the method is called again for an asset that has its entry.
C16_Witness ==
    /\ last.op = "purchase" /\ last.error = "exists"
    /\ PurchaseEntriesOf(entries, last.entry) # {}
    /\ accounts[CategoryAccounts.asset_account].debit_balance
          = assets[last.entry].purchase_cost

\* C17: if creating the purchase journal entry fails, saving the new asset
\* still succeeds and the asset is persisted, and no PURCHASE entry, line or
\* account-balance change of the failed attempt remains.
C17_PurchaseBestEffort ==
    [][(last'.op = "asset" /\ last'.error # "") =>
          /\ last'.ok
          /\ Len(assets') = Len(assets) + 1
          /\ entries' = entries
          /\ accounts' = accounts]_vars

\* ... reached when the second line of the purchase entry could not be created.
C17_Witness ==
    /\ last.op = "asset" /\ last.fault = 3 /\ last.error = "DatabaseError"
    /\ last.entry \in DOMAIN assets
    /\ PurchaseEntriesOf(entries, last.entry) = {}

\* The DEPRECIATION entries whose source is asset i.
DepreciationEntriesOf(ents, i) ==
    {e \in DOMAIN ents : ents[e].entry_type = "DEPRECIATION" /\ ents[e].source = i}

\* C18: in a monthly run a failure on one asset does not keep any other
\* asset from being processed, and the failing asset's depreciation record,
\* field update and journal entry are committed together or not at all.
C18_MonthlyRunPerAsset ==
    [][last'.op = "monthly" =>
          \A i \in DOMAIN assets :
              LET records == Len(assets'[i].depreciation_entries)
                                - Len(assets[i].depreciation_entries)
                  journal == Cardinality(DepreciationEntriesOf(entries', i))
                                - Cardinality(DepreciationEntriesOf(entries, i))
                  due == /\ assets[i].status = "ACTIVE"
                         /\ FracLess(FracInt(0), calculate_current_depreciation(assets[i], today))
              IN  /\ records = journal
                  /\ records = 0 => assets'[i] = assets[i]
                  /\ (due /\ i # last'.entry) => records = 1]_vars

(***************************************************************************)
(* Properties of depreciation runs side by side.                           *)
(***************************************************************************)
\* The month and year of the date an entry number ends with.
PeriodOfNumber(num) == <<(num.suffix \div 100) % 100, num.suffix \div 10000>>

RecordsOfPeriod(asset, month, year) ==
    {k \in DOMAIN asset.depreciation_entries :
        /\ asset.depreciation_entries[k].period_month = month
        /\ asset.depreciation_entries[k].period_year = year}

\* C12: after any sequence or interleaving of depreciation runs each asset
\* has at most one AssetDepreciation record and at most one DEPRECIATION
\* journal entry per (period_month, period_year), and a run for an asset
\* already depreciated in the period changes neither the asset nor any
\* account balance.
C12_OncePerPeriod ==
    [][/\ \A i \in DOMAIN assets' : \A m \in 1 .. MonthsPerYear :
             LET y == YearOf(today')
             IN  /\ Cardinality(RecordsOfPeriod(assets'[i], m, y)) <= 1
                 /\ Cardinality({e \in DepreciationEntriesOf(entries', i) :
                        PeriodOfNumber(entries'[e].entry_number) = <<m, y>>}) <= 1
       /\ \A r \in DOMAIN writers :
             (/\ writers[r].pc = "start" /\ writers'[r].pc # "start"
              /\ RecordsOfPeriod(assets[writers'[r].asset], MonthOf(today), YearOf(today)) # {})
               => /\ writers'[r].pc = "done"
                  /\ assets' = assets /\ accounts' = accounts]_vars

(***************************************************************************)
(* Properties of the commission/advance ledger.                            *)
(***************************************************************************)
\* The rows that exist before and after a step, each with its row after.
CommissionSteps ==
    {t \in {<<commissions[k], commissions'[j]>> :
                k \in DOMAIN commissions, j \in DOMAIN commissions'} :
        t[1].id = t[2].id}

\* C19: every advance creation, by the create serializer or by
\* give_advance, is rejected and creates no advance when requested_amount
\* exceeds max(0, AVAILABLE+PAYABLE commissions minus APPROVED+PAID
\* advances) of the employee, and is accepted when requested_amount is at
\* most that balance and the employee has no other advance that day.
C19_AdvanceCap ==
    [][last'.op \in {"create_advance", "give_advance"} =>
          LET employee == last'.entry[1]
              requested_amount == last'.entry[2]
          IN  /\ requested_amount > available_commission(employee)
                    => (~last'.ok /\ advances' = advances)
              /\ (/\ requested_amount > 0
                  /\ requested_amount <= available_commission(employee)
                  /\ ~existing_advance_today(employee)
                  /\ last'.error # "ValidationError: permission")
                    => (/\ last'.ok
                        /\ Len(advances') = Len(advances) + 1
                        /\ advances'[Len(advances')].employee = employee
                        /\ advances'[Len(advances')].requested_amount = requested_amount)]_vars

\* C20: whenever commissions of an employee go from PAYABLE to PAID, all of
\* that employee's APPROVED or PAID advances become RECOVERED in the same
\* operation, and the advances of employees none of whose commissions were
\* paid are left unchanged.
C20_RecoveryCascade ==
    [][LET paid == {t[1].employee : t \in
                      {u \in CommissionSteps :
                          u[1].status = "PAYABLE" /\ u[2].status = "PAID"}}
       IN  DOMAIN advances' = DOMAIN advances
             => \A a \in DOMAIN advances :
                   IF advances[a].employee \in paid
                   THEN advances[a].status \in {"APPROVED", "PAID"}
                           => advances'[a].status = "RECOVERED"
                   ELSE advances'[a] = advances[a]]_vars

C22_OneAdvancePerDay ==
    \A a, b \in DOMAIN advances :
        (a # b /\ advances[a].employee = advances[b].employee)
            => advances[a].requested_at # advances[b].requested_at

\* C23: an advance becomes REJECTED or CANCELLED only from PENDING and PAID
\* only from APPROVED, an advance that is RECOVERED, REJECTED or CANCELLED
\* never changes status again, and review, mark_paid and cancel on an
\* advance in any other state are rejected and leave it unchanged.
C23_AdvanceLifecycle ==
    [][\A a \in DOMAIN advances :
          LET old == advances[a].status
              new == advances'[a].status
          IN  /\ (new # old /\ new \in {"REJECTED", "CANCELLED"}) => old = "PENDING"
              /\ (new # old /\ new = "PAID") => old = "APPROVED"
              /\ old \in {"RECOVERED", "REJECTED", "CANCELLED"} => advances'[a] = advances[a]
              /\ (last'.op = "review" /\ last'.entry = a /\ old # "PENDING")
                    => (~last'.ok /\ advances'[a] = advances[a])
              /\ (last'.op = "advance_paid" /\ last'.entry = a /\ old # "APPROVED")
                    => (~last'.ok /\ advances'[a] = advances[a])
              /\ (last'.op = "cancel" /\ last'.entry = a /\ old # "PENDING")
                    => (~last'.ok /\ advances'[a] = advances[a])]_vars

(***************************************************************************)
(* Properties of the depreciation schedule and of the calculator's methods.*)
(***************************************************************************)
\* C24: for a STRAIGHT_LINE asset the schedule has exactly
\* useful_life_years x 12 monthly entries, each with depreciation_amount =
\* (purchase_cost - salvage_value) / (useful_life_years x 12) to the cent,
\* each entry's accumulated_depreciation the running sum to the cent and
\* its book_value = purchase_cost - accumulated_depreciation, and the final
\* book_value equal to salvage_value.
C24_StraightLineSchedule ==
    (/\ last.op = "schedule"
     /\ assets[last.entry].depreciation_method = "STRAIGHT_LINE"
     /\ assets[last.entry].status \notin {"DISPOSED", "SOLD"})
      => LET asset == assets[last.entry]
             n == asset.useful_life_years * MonthsPerYear
             each == Frac(asset.purchase_cost - asset.salvage_value, n)
         IN  /\ Len(last.schedule) = n
             /\ \A k \in 1 .. Len(last.schedule) :
                   /\ last.schedule[k].depreciation_amount = QuantizeHalfEven(each)
                   /\ last.schedule[k].accumulated_depreciation =
                          QuantizeHalfEven(FracMul(FracInt(k), each))
                   /\ last.schedule[k].book_value =
                          asset.purchase_cost - last.schedule[k].accumulated_depreciation
             /\ last.schedule[Len(last.schedule)].book_value = asset.salvage_value

\* What the double-declining rule gives after n whole years: each year takes
\* the book value at its start times rate, or what is left above
\* salvage_value when that is less.
RECURSIVE DecliningAfterYears(_, _, _)
DecliningAfterYears(asset, rate, n) ==
    IF n = 0 THEN FracInt(0)
    ELSE LET before == DecliningAfterYears(asset, rate, n - 1)
             book == FracSub(FracInt(asset.purchase_cost), before)
             full == FracMul(book, rate)
             above == FracSub(book, FracInt(asset.salvage_value))
         IN  FracAdd(before, IF FracLess(above, full) THEN above ELSE full)

\* C25: for a DOUBLE_DECLINING asset owned for n >= 1 whole years, the
\* accumulated depreciation the calculation stores is, to the cent, the sum
\* of the n yearly amounts, each the book value at the start of its year
\* times 2 / useful_life_years, reduced so that book value does not fall
\* below salvage_value.
C25_DoubleDeclining ==
    \A i \in DOMAIN assets :
        (/\ last.op = "values" /\ last.entry = i
         /\ assets[i].depreciation_method = "DOUBLE_DECLINING"
         /\ assets[i].status \notin {"DISPOSED", "SOLD"}
         /\ assets[i].purchase_date <= today
         /\ months_owned(assets[i], today) > 0
         /\ months_owned(assets[i], today) % MonthsPerYear = 0)
        => LET years == months_owned(assets[i], today) \div MonthsPerYear
               sum == DecliningAfterYears(assets[i], Frac(2, assets[i].useful_life_years), years)
           IN  /\ assets[i].accumulated_depreciation = QuantizeHalfUp(sum)
               /\ assets[i].current_book_value =
                      assets[i].purchase_cost - QuantizeHalfUp(sum)

\* ... reached after one whole year of a three-year life, where the year's
\* amount is the full rate and part of the cost is left.
C25_Witness ==
    /\ last.op = "values" /\ last.entry = 1 /\ assets[1].status = "ACTIVE"
    /\ assets[1].depreciation_method = "DOUBLE_DECLINING"
    /\ assets[1].useful_life_years = 3
    /\ assets[1].purchase_date <= today
    /\ months_owned(assets[1], today) = MonthsPerYear
    /\ assets[1].accumulated_depreciation > 0
    /\ assets[1].current_book_value > assets[1].salvage_value

\* C26: for a DECLINING_BALANCE asset owned for n >= 1 whole years, the
\* accumulated depreciation and the book value the calculation stores are
\* those of the declining-balance rule at the annual rate 1.5 /
\* useful_life_years: each year takes the remaining book value times that
\* rate, capped so that book value does not drop below salvage_value.
C26_DecliningBalance ==
    \A i \in DOMAIN assets :
        (/\ last.op = "values" /\ last.entry = i
         /\ assets[i].depreciation_method = "DECLINING_BALANCE"
         /\ assets[i].status \notin {"DISPOSED", "SOLD"}
         /\ assets[i].purchase_date <= today
         /\ months_owned(assets[i], today) > 0
         /\ months_owned(assets[i], today) % MonthsPerYear = 0)
        => LET years == months_owned(assets[i], today) \div MonthsPerYear
               sum == DecliningAfterYears(assets[i],
                          Frac(3, 2 * assets[i].useful_life_years), years)
           IN  /\ assets[i].accumulated_depreciation = QuantizeHalfUp(sum)
               /\ assets[i].current_book_value =
                      assets[i].purchase_cost - QuantizeHalfUp(sum)

\* C27: when the purchase date is after the calculation date, or no whole
\* month has passed since the purchase, the calculation leaves
\* accumulated_depreciation = 0 and current_book_value = purchase_cost, also
\* on an asset whose stored values were never calculated before.
C27_NothingElapsed ==
    \A i \in DOMAIN assets :
        (/\ last.op = "values" /\ last.entry = i
         /\ assets[i].status \notin {"DISPOSED", "SOLD"}
         /\ \/ assets[i].purchase_date > today
            \/ months_owned(assets[i], today) <= 0)
        => /\ assets[i].accumulated_depreciation = 0
           /\ assets[i].current_book_value = assets[i].purchase_cost

(***************************************************************************)
(* Properties of the monthly runs over the life of an asset.               *)
(***************************************************************************)
RECURSIVE RecordedDepreciation(_)
RecordedDepreciation(records) ==
    IF records = << >> THEN 0
    ELSE Head(records).amount + RecordedDepreciation(Tail(records))

\* The credits that the depreciation entries of asset i put on the
\* accumulated-depreciation account.
RECURSIVE PostedDepreciation(_, _)
PostedDepreciation(ents, i) ==
    IF ents = << >> THEN 0
    ELSE (IF Head(ents).entry_type = "DEPRECIATION" /\ Head(ents).source = i
          THEN CreditsOn(Head(ents).lines, CategoryAccounts.depreciation_account)
          ELSE 0) + PostedDepreciation(Tail(ents), i)

\* C28: after any sequence of monthly runs, also beyond the useful life,
\* the amounts of an asset's AssetDepreciation records, and the credits
\* posted for it to the accumulated-depreciation account, never add up to
\* more than purchase_cost - salvage_value, and a run on an asset whose
\* book value has reached salvage_value records no further depreciation.
C28_RunsStopAtSalvage ==
    [][\A i \in DOMAIN assets' :
          /\ RecordedDepreciation(assets'[i].depreciation_entries)
                <= assets'[i].purchase_cost - assets'[i].salvage_value
          /\ PostedDepreciation(entries', i)
                <= assets'[i].purchase_cost - assets'[i].salvage_value
          /\ (/\ last'.op = "monthly"
              /\ i \in DOMAIN assets
              /\ assets[i].current_book_value <= assets[i].salvage_value)
                => assets'[i].depreciation_entries = assets[i].depreciation_entries]_vars

(***************************************************************************)
(* Properties of the ledger as a whole.                                    *)
(***************************************************************************)
\* C29: trial balance.  After any sequence of completed expense
\* recordings, asset purchases, monthly depreciations and disposals (none
\* of them cut short by a database failure), the debit_balance of all
\* accounts together equals the credit_balance of all accounts together.
C29_TrialBalance ==
    faults = 0 =>
        Sum([a \in AccountCodes |-> accounts[a].debit_balance], AccountCodes)
            = Sum([a \in AccountCodes |-> accounts[a].credit_balance], AccountCodes)

(***************************************************************************)
(* Properties of advances against commissions.                             *)
(***************************************************************************)
\* C30: after any sequence of commission creations, mark_payable,
\* mark_paid, advance requests, give_advance, reviews and advance
\* mark_paid, with no commission cancelled and no job line replaced, every
\* employee's APPROVED and PAID advances add up (approved_amount) to no more
\* than that employee's AVAILABLE and PAYABLE commissions (commission_amount).
C30_AdvancesCovered ==
    \A employee \in Users :
        unrecovered_advances(employee) <= pending_commission(employee)
====
